---------------------------- MODULE Spec2Model ----------------------------
(***************************************************************************)
(* A model of s3cleanup.py: S3FileProcessor's country filter, its gzip     *)
(* codec and its guarded replace-in-place batch run.                       *)
(*                                                                         *)
(* A str is a sequence of one-character strings; a bytes value is a        *)
(* sequence of bytes, an ASCII byte written as its character and the       *)
(* other bytes as "0x..".                                                  *)
(***************************************************************************)
EXTENDS Integers, Sequences, FiniteSets, TLC

\* ------------------------------------------------------------------ bounds
\* Most lines of a text the filter is applied to.
MaxLines == 3
\* Largest --min-lines value tried.
MaxMinLines == 2

\* ----------------------------------------------------------------- strings
NL == "\n"
QUOTE == "\""
EmptyStr == << >>

\* The characters str.strip() removes that occur in the texts of the model.
Whitespace == {" ", "\t", "\r", NL}

RECURSIVE Strip(_)
\* str.strip(): leading and trailing whitespace removed.
Strip(s) ==
    IF s = EmptyStr THEN EmptyStr
    ELSE IF Head(s) \in Whitespace THEN Strip(Tail(s))
    ELSE IF s[Len(s)] \in Whitespace THEN Strip(SubSeq(s, 1, Len(s) - 1))
    ELSE s

\* The positions of c in s, in increasing order.
PositionsOf(s, c) == SelectSeq([i \in 1..Len(s) |-> i], LAMBDA i : s[i] = c)

\* str.split('\n'): the pieces between the newlines, one more than there are
\* newlines, so always at least one.
Split(s) ==
    LET nl == PositionsOf(s, NL)
    IN  [k \in 1..(Len(nl) + 1) |->
            SubSeq(s, IF k = 1 THEN 1 ELSE nl[k - 1] + 1,
                      IF k = Len(nl) + 1 THEN Len(s) ELSE nl[k] - 1)]

RECURSIVE Join(_)
\* '\n'.join(lines): the empty text for no line at all.
Join(lines) ==
    IF lines = << >> THEN EmptyStr
    ELSE IF Len(lines) = 1 THEN lines[1]
    ELSE lines[1] \o <<NL>> \o Join(Tail(lines))

\* pat in line
Contains(line, pat) ==
    \E l \in {line}, p \in {pat} :
       \E i \in 0..(Len(l) - Len(p)) : SubSeq(l, i + 1, i + Len(p)) = p

StartsWith(s, p) == Len(p) <= Len(s) /\ SubSeq(s, 1, Len(p)) = p

EndsWith(s, p) == Len(p) <= Len(s) /\ SubSeq(s, Len(s) - Len(p) + 1, Len(s)) = p

RECURSIVE LStrip(_, _)
\* str.lstrip(c)
LStrip(s, c) == IF s # EmptyStr /\ Head(s) = c THEN LStrip(Tail(s), c) ELSE s

\* str.upper() on one character.
UpperChar(c) ==
    CASE c = "a" -> "A" [] c = "b" -> "B" [] c = "c" -> "C" [] c = "d" -> "D"
      [] c = "e" -> "E" [] c = "f" -> "F" [] c = "g" -> "G" [] c = "h" -> "H"
      [] c = "i" -> "I" [] c = "j" -> "J" [] c = "k" -> "K" [] c = "l" -> "L"
      [] c = "m" -> "M" [] c = "n" -> "N" [] c = "o" -> "O" [] c = "p" -> "P"
      [] c = "q" -> "Q" [] c = "r" -> "R" [] c = "s" -> "S" [] c = "t" -> "T"
      [] c = "u" -> "U" [] c = "v" -> "V" [] c = "w" -> "W" [] c = "x" -> "X"
      [] c = "y" -> "Y" [] c = "z" -> "Z" [] OTHER -> c

Upper(s) == [i \in 1..Len(s) |-> UpperChar(s[i])]

\* ------------------------------------------------------------ the literals
ClientGeoCountry ==
    <<"C", "l", "i", "e", "n", "t", "G", "e", "o", "C", "o", "u", "n", "t", "r", "y">>
US == <<"U", "S">>
USA == <<"U", "S", "A">>
UnitedStates == <<"U", "n", "i", "t", "e", "d", " ", "S", "t", "a", "t", "e", "s">>
UnitedStatesOfAmerica ==
    UnitedStates \o <<" ", "o", "f", " ", "A", "m", "e", "r", "i", "c", "a">>
CA == <<"C", "A">>
Canada == <<"C", "a", "n", "a", "d", "a">>
LowerUs == <<"u", "s">>

us_variations == <<US, USA, UnitedStates, UnitedStatesOfAmerica>>

\* The four f-strings of the substring test, for one value v.
ShapeJson(v) ==
    <<QUOTE>> \o ClientGeoCountry \o <<QUOTE, ":", " ", QUOTE>> \o v \o <<QUOTE>>
ShapeCompact(v) ==
    <<QUOTE>> \o ClientGeoCountry \o <<QUOTE, ":", QUOTE>> \o v \o <<QUOTE>>
ShapeQuotedValue(v) == ClientGeoCountry \o <<":", " ", QUOTE>> \o v \o <<QUOTE>>
ShapeBare(v) == ClientGeoCountry \o <<":", " ">> \o v

MatchesValue(line, v) ==
    \/ Contains(line, ShapeJson(v))
    \/ Contains(line, ShapeCompact(v))
    \/ Contains(line, ShapeQuotedValue(v))
    \/ Contains(line, ShapeBare(v))

\* ------------------------------------------------------------- the filter
\* IsBlankLine without the strip(): only the empty line is blank.
IsBlankLineOnlyEmpty(line) == line = EmptyStr

\* line.strip() == ''
IsBlankLine(line) == Strip(line) = EmptyStr

IsTargetCountry(line, country_to_keep) ==
    IF Upper(country_to_keep) = US
    THEN \E n \in 1..Len(us_variations) : MatchesValue(line, us_variations[n])
    ELSE MatchesValue(line, country_to_keep)

\* The locals of _filter_content before its loop.
FilterStart ==
    [filtered_lines |-> << >>, kept_count |-> 0, removed_count |-> 0,
     total_data_lines |-> 0]

\* FilterStep with the blank lines dropped instead of kept.
FilterStepDropsBlank(acc, line, country_to_keep) ==
    IF IsBlankLine(line) THEN acc
    ELSE IF IsTargetCountry(line, country_to_keep)
    THEN [acc EXCEPT !.total_data_lines = @ + 1,
                     !.filtered_lines = Append(@, line),
                     !.kept_count = @ + 1]
    ELSE [acc EXCEPT !.total_data_lines = @ + 1,
                     !.removed_count = @ + 1]

\* FilterStep with the blank lines counted as examined.
FilterStepCountsBlank(acc, line, country_to_keep) ==
    IF IsBlankLine(line)
    THEN [acc EXCEPT !.total_data_lines = @ + 1,
                     !.filtered_lines = Append(@, line)]
    ELSE IF IsTargetCountry(line, country_to_keep)
    THEN [acc EXCEPT !.total_data_lines = @ + 1,
                     !.filtered_lines = Append(@, line),
                     !.kept_count = @ + 1]
    ELSE [acc EXCEPT !.total_data_lines = @ + 1,
                     !.removed_count = @ + 1]

\* FilterStep that removes the first line it examines, whatever it holds.
FilterStepDropsHeader(acc, line, country_to_keep) ==
    IF IsBlankLine(line)
    THEN [acc EXCEPT !.filtered_lines = Append(@, line)]
    ELSE IF acc.total_data_lines > 0 /\ IsTargetCountry(line, country_to_keep)
    THEN [acc EXCEPT !.total_data_lines = @ + 1,
                     !.filtered_lines = Append(@, line),
                     !.kept_count = @ + 1]
    ELSE [acc EXCEPT !.total_data_lines = @ + 1,
                     !.removed_count = @ + 1]

\* One iteration of the loop of _filter_content.
FilterStep(acc, line, country_to_keep) ==
    IF IsBlankLine(line)
    THEN [acc EXCEPT !.filtered_lines = Append(@, line)]
    ELSE IF IsTargetCountry(line, country_to_keep)
    THEN [acc EXCEPT !.total_data_lines = @ + 1,
                     !.filtered_lines = Append(@, line),
                     !.kept_count = @ + 1]
    ELSE [acc EXCEPT !.total_data_lines = @ + 1,
                     !.removed_count = @ + 1]

RECURSIVE FilterLoop(_, _, _)
FilterLoop(acc, lines, country_to_keep) ==
    IF lines = << >> THEN acc
    ELSE FilterLoop(FilterStep(acc, Head(lines), country_to_keep),
                    Tail(lines), country_to_keep)

\* The locals of _filter_content when it returns, and its two results.
FilterLocals(content, country_to_keep) ==
    FilterLoop(FilterStart, Split(content), country_to_keep)

\* Line 304: what _filter_content returns from its locals f.
FilterReturn(f) == [text |-> Join(f.filtered_lines), kept |-> f.kept_count]

FilterContent(content, country_to_keep) ==
    FilterReturn(FilterLocals(content, country_to_keep))

\* --------------------------------------------------------------- the codec
\* The character outside ASCII that occurs in the texts of the model.
EAcute == "e-acute"

\* str.encode('utf-8') of one character: an ASCII character is its own byte.
Utf8EncodeChar(c) == IF c = EAcute THEN <<"0xc3", "0xa9">> ELSE <<c>>

\* No byte: the second place of a character that encodes to one byte.
NoByte == ""

\* str.encode('utf-8'): the encodings of the characters, one after the other.
Utf8Encode(text) ==
    SelectSeq([k \in 1..(2 * Len(text)) |->
                  LET e == Utf8EncodeChar(text[(k + 1) \div 2])
                  IN  IF k % 2 = 1 THEN e[1]
                      ELSE IF Len(e) = 2 THEN e[2] ELSE NoByte],
              LAMBDA b : b # NoByte)

\* The bytes of the model that cannot stand where a character starts.
InvalidLead == {"0xff", "0xa9"}

\* bytes.decode('utf-8') is strict: a UnicodeDecodeError for a byte that
\* starts no character or a character that is cut short.
Utf8Valid(bytes) ==
    \A i \in 1..Len(bytes) :
       /\ bytes[i] = "0xff" => FALSE
       /\ bytes[i] = "0xc3" => (i < Len(bytes) /\ bytes[i + 1] = "0xa9")
       /\ bytes[i] = "0xa9" => (i > 1 /\ bytes[i - 1] = "0xc3")

Utf8Decode(bytes) ==
    IF ~Utf8Valid(bytes) THEN [ok |-> FALSE, text |-> EmptyStr]
    ELSE LET starts == SelectSeq([i \in 1..Len(bytes) |-> i],
                                 LAMBDA i : bytes[i] \notin InvalidLead)
         IN  [ok |-> TRUE,
              text |-> [k \in 1..Len(starts) |->
                          IF bytes[starts[k]] = "0xc3" THEN EAcute
                          ELSE bytes[starts[k]]]]

\* An object body. fmt "raw": the bytes data as they are; fmt "gzip": a gzip
\* stream with header time mtime whose members decompress to data; fmt
\* "damaged": bytes that begin like a gzip stream and do not decompress.
RawBody(bytes) == [fmt |-> "raw", mtime |-> 0, data |-> bytes]
DamagedBody == [fmt |-> "damaged", mtime |-> 0, data |-> << >>]
NoBody == [fmt |-> "none", mtime |-> 0, data |-> << >>]

\* gzip.GzipFile(fileobj=buffer, mode='wb', compresslevel=6, mtime=mtime)
GzipFile(bytes, mtime) == [fmt |-> "gzip", mtime |-> mtime, data |-> bytes]

\* gzip.decompress(body): BadGzipFile / EOFError unless body is a gzip stream.
GzipDecompress(body) ==
    IF body.fmt = "gzip" THEN [ok |-> TRUE, bytes |-> body.data]
    ELSE [ok |-> FALSE, bytes |-> << >>]

\* body.decode('utf-8'): a gzip stream starts 0x1f 0x8b, which is not UTF-8.
BodyDecode(body) ==
    IF body.fmt = "raw" THEN Utf8Decode(body.data)
    ELSE [ok |-> FALSE, text |-> EmptyStr]

GzSuffix == <<".", "g", "z">>
Slash == "/"

\* _download_file after get_object has returned body.
DownloadDecode(file_key, body) ==
    IF EndsWith(file_key, GzSuffix)
    THEN LET d == GzipDecompress(body)
         IN  IF d.ok THEN Utf8Decode(d.bytes) ELSE [ok |-> FALSE, text |-> EmptyStr]
    ELSE BodyDecode(body)

\* The mtime argument of _gzip_content's GzipFile.
GzipMtime == 0

\* _gzip_content: the ratio is computed as 1 - compressed_size / original_size,
\* a ZeroDivisionError for the empty text, re-raised as "Failed to compress".
GzipContent(content) ==
    LET content_bytes == Utf8Encode(content)
        compressed_data == GzipFile(content_bytes, GzipMtime)
        original_size == Len(content_bytes)
        test_decompress == GzipDecompress(compressed_data)
    IN  IF original_size = 0 THEN [ok |-> FALSE, body |-> NoBody]
        ELSE IF ~test_decompress.ok \/ test_decompress.bytes # content_bytes
        THEN [ok |-> FALSE, body |-> NoBody]
        ELSE [ok |-> TRUE, body |-> compressed_data]

\* VerifyAccepts without the decompression and decoding of the re-read body.
VerifyAcceptsAny(test_content) == TRUE

\* The verification of _upload_file on the body the second get_object returned.
VerifyAccepts(test_content) ==
    LET test_decompressed == GzipDecompress(test_content)
    IN  test_decompressed.ok /\ Utf8Decode(test_decompressed.bytes).ok

\* ------------------------------------------------------------ the locator
S3Scheme == <<"s", "3", ":", Slash, Slash>>

\* urlparse(s3_uri).netloc and .path of a locator that starts with s3://
UrlNetloc(s3_uri) ==
    LET rest == SubSeq(s3_uri, Len(S3Scheme) + 1, Len(s3_uri))
    IN  IF \E i \in 1..Len(rest) : rest[i] = Slash
        THEN SubSeq(rest, 1, (CHOOSE i \in 1..Len(rest) :
                        rest[i] = Slash /\ \A j \in 1..(i - 1) : rest[j] # Slash) - 1)
        ELSE rest

UrlPath(s3_uri) ==
    LET rest == SubSeq(s3_uri, Len(S3Scheme) + 1, Len(s3_uri))
    IN  SubSeq(rest, Len(UrlNetloc(s3_uri)) + 1, Len(rest))

ParseS3Uri(s3_uri) ==
    IF ~StartsWith(s3_uri, S3Scheme)
    THEN [ok |-> FALSE, bucket |-> EmptyStr, prefix |-> EmptyStr]
    ELSE [ok |-> TRUE, bucket |-> UrlNetloc(s3_uri),
          prefix |-> LStrip(UrlPath(s3_uri), Slash)]

\* ------------------------------------------------------------- the bucket
BucketName == <<"b">>
KeyFolder == <<"p", Slash>>
KeyA == <<"p", Slash, "a">> \o GzSuffix
KeyC == <<"p", Slash, "c">>
KeyQ == <<"q">> \o GzSuffix

\* The keys of the bucket, in the order list_objects_v2 returns them.
AllKeys == <<KeyFolder, KeyA, KeyC, KeyQ>>
ObjectKeys == {AllKeys[n] : n \in 1..Len(AllKeys)}

\* The locators tried: well formed, matching no key, no scheme, no container.
UriGood == S3Scheme \o BucketName \o <<Slash>> \o KeyFolder
UriNoMatch == S3Scheme \o BucketName \o <<Slash, "z">>
UriNoScheme == BucketName \o <<Slash>> \o KeyFolder
UriNoBucket == S3Scheme \o <<Slash>> \o KeyFolder
UriSamples == {UriGood, UriNoMatch, UriNoScheme, UriNoBucket}

LineUS == ShapeBare(US)
LineUSA == ShapeJson(USA)
LineCompactUS == ShapeCompact(US)
LineCanada == ShapeQuotedValue(Canada)
LineJunk == <<"x", EAcute>>
\* A line whose value begins with a synonym of US and names another country.
MinorOutlyingIslands ==
    UnitedStates \o <<" ", "M", "i", "n", "o", "r", " ", "O", "u", "t", "l", "y", "i", "n", "g",
                      " ", "I", "s", "l", "a", "n", "d", "s">>
LineUSMinor == ShapeBare(MinorOutlyingIslands)

TextTwoUS == Join(<<LineUS, LineJunk, EmptyStr, LineUSA>>)
TextMixed == Join(<<LineCompactUS, LineCanada>>)
TextJunk == LineJunk
TextBlank == <<" ", NL>>

GzBody(text) == GzipFile(Utf8Encode(text), 1)
TextBody(text) == RawBody(Utf8Encode(text))

\* What the object with the .gz key may hold when the run starts, and the
\* object without it; the last of each is a body _download_file cannot decode.
BodiesA == {GzBody(TextTwoUS), GzBody(TextMixed), GzBody(TextJunk),
            GzipFile(<<"x", "0xff">>, 1), TextBody(TextMixed)}
BodiesC == {TextBody(TextTwoUS), TextBody(TextBlank), TextBody(TextJunk),
            GzBody(TextMixed)}
CountrySamples == {US, Canada}

\* ---------------------------------------------------------------- the state
VARIABLES
    s3_uri, country_to_keep, save_local_files, dry_run, min_data_lines,
    store, store0, calls,
    pc, ending, bucket_name, files, idx, results, successful, failed, skipped,
    step, file_content, flt, filtered_content, data_lines_kept,
    compressed_content, reread, ended_at, outcomes

cfgVars == <<s3_uri, country_to_keep, save_local_files, dry_run, min_data_lines>>
batchVars == <<pc, ending, bucket_name, files, idx, results, successful, failed, skipped>>
localVars == <<file_content, flt, filtered_content, data_lines_kept,
               compressed_content, reread>>
vars == <<cfgVars, store, store0, calls, batchVars, step, localVars, ended_at, outcomes>>

\* The locals of process_file before its first statement.
NoLocals ==
    /\ file_content = EmptyStr
    /\ flt = FilterStart
    /\ filtered_content = EmptyStr
    /\ data_lines_kept = 0
    /\ compressed_content = NoBody
    /\ reread = NoBody

InitBatch ==
    /\ pc = "start"
    /\ ending = "none"
    /\ bucket_name = EmptyStr
    /\ files = << >>
    /\ idx = 1
    /\ results = << >>
    /\ successful = 0
    /\ failed = 0
    /\ skipped = 0
    /\ step = "idle"
    /\ ended_at = "none"
    /\ outcomes = << >>
    /\ calls = << >>

Init ==
    /\ s3_uri \in UriSamples
    /\ country_to_keep \in CountrySamples
    /\ save_local_files \in BOOLEAN
    /\ dry_run \in BOOLEAN
    /\ min_data_lines \in 0..MaxMinLines
    /\ \E a \in BodiesA, c \in BodiesC :
          store0 = [k \in ObjectKeys |->
                      IF k = KeyA THEN a
                      ELSE IF k = KeyC THEN c
                      ELSE IF k = KeyQ THEN GzBody(TextTwoUS)
                      ELSE RawBody(<< >>)]
    /\ store = store0
    /\ InitBatch
    /\ NoLocals

\* ------------------------------------------------------- the batch driver
Call(op, bucket, key, body) == [op |-> op, bucket |-> bucket, key |-> key, body |-> body]

\* ListedKeys with the folder placeholders left in.
ListedKeysWithFolders(prefix) == SelectSeq(AllKeys, LAMBDA k : StartsWith(k, prefix))

\* list_files_in_path: the keys under the prefix that do not end with '/'.
ListedKeys(prefix) ==
    SelectSeq(AllKeys, LAMBDA k : StartsWith(k, prefix) /\ ~EndsWith(k, <<Slash>>))

\* EndingBeforeLoop without the return of the preview.
EndingBeforeLoopNoPreview(loc, list_ok, listed, preview) ==
    IF ~loc.ok \/ ~list_ok THEN "batch_failed"
    ELSE IF listed = << >> THEN "no_files"
    ELSE "none"

\* How process_all_files_in_path ends before its loop, "none" if it does not.
\* loc: the parsed locator; list_ok: the listing did not raise.
EndingBeforeLoop(loc, list_ok, listed, preview) ==
    IF ~loc.ok \/ ~list_ok THEN "batch_failed"
    ELSE IF listed = << >> THEN "no_files"
    ELSE IF preview THEN "dry_run"
    ELSE "none"

\* Lines 144-170: parse the locator, list the files, print them, stop on dry_run.
Enumerate ==
    /\ pc = "start"
    /\ \E client_error \in BOOLEAN :
          LET loc == ParseS3Uri(s3_uri)
              list_ok == loc.bucket = BucketName /\ ~client_error
              listed == IF loc.ok /\ list_ok THEN ListedKeys(loc.prefix) ELSE << >>
              e == EndingBeforeLoop(loc, list_ok, listed, dry_run)
          IN  /\ bucket_name' = IF loc.ok THEN loc.bucket ELSE EmptyStr
              /\ calls' = IF loc.ok
                          THEN Append(calls, Call("list", loc.bucket, loc.prefix, NoBody))
                          ELSE calls
              /\ files' = listed
              /\ ending' = e
              /\ pc' = IF e = "none" THEN "confirm" ELSE "done"
    /\ UNCHANGED <<cfgVars, store, store0, idx, results, successful, failed, skipped,
                   step, localVars, ended_at, outcomes>>

\* Lines 178-189: the prompt; anything but yes / y cancels.
Confirm ==
    /\ pc = "confirm"
    /\ \E response \in {"yes", "no"} :
          IF response \in {"yes", "y"}
          THEN /\ pc' = "loop"
               /\ step' = "download"
               /\ UNCHANGED ending
          ELSE /\ pc' = "done"
               /\ ending' = "cancelled"
               /\ UNCHANGED step
    /\ UNCHANGED <<cfgVars, store, store0, calls, bucket_name, files, idx, results,
                   successful, failed, skipped, localVars, ended_at, outcomes>>

\* ------------------------------------------------------------ process_file
file_key == files[idx]

\* process_file stops at the given stage: by its return False of the guard,
\* or by an exception, which its except clause turns into return False.
StopAt(stage) ==
    /\ step' = "return"
    /\ ended_at' = stage

GoOn(next) ==
    /\ step' = next
    /\ UNCHANGED ended_at

\* Step 1, _download_file: get_object, gzip.decompress for a .gz key, decode.
Download ==
    /\ pc = "loop" /\ step = "download"
    /\ calls' = Append(calls, Call("get", bucket_name, file_key, NoBody))
    /\ \/ /\ StopAt("download")
          /\ UNCHANGED localVars
       \/ LET d == DownloadDecode(file_key, store[file_key])
          IN  IF d.ok
              THEN /\ file_content' = d.text
                   /\ GoOn(IF save_local_files THEN "save_before" ELSE "filter")
                   /\ UNCHANGED <<flt, filtered_content, data_lines_kept,
                                  compressed_content, reread>>
              ELSE /\ StopAt("decode")
                   /\ UNCHANGED localVars
    /\ UNCHANGED <<cfgVars, store, store0, batchVars, outcomes>>

\* Step 2, _save_local_file(file_content, file_key, "before"): makedirs and
\* open may raise OSError.
SaveBefore ==
    /\ pc = "loop" /\ step = "save_before"
    /\ \E os_error \in BOOLEAN :
          IF os_error THEN StopAt("save_before") ELSE GoOn("filter")
    /\ UNCHANGED <<cfgVars, store, store0, calls, batchVars, localVars, outcomes>>

\* Step 3, _filter_content.
Filter ==
    /\ pc = "loop" /\ step = "filter"
    /\ flt' = FilterLocals(file_content, country_to_keep)
    /\ filtered_content' = FilterReturn(flt').text
    /\ data_lines_kept' = FilterReturn(flt').kept
    /\ GoOn(IF save_local_files THEN "save_after" ELSE "guard")
    /\ UNCHANGED <<cfgVars, store, store0, calls, batchVars, file_content,
                   compressed_content, reread, outcomes>>

\* Step 4, _save_local_file(filtered_content, file_key, "after") and
\* _create_summary_file: each may raise OSError.
SaveAfter ==
    /\ pc = "loop" /\ step = "save_after"
    /\ \E os_error \in {"none", "after", "summary"} :
          IF os_error = "none" THEN GoOn("guard")
          ELSE StopAt(IF os_error = "after" THEN "save_after" ELSE "summary")
    /\ UNCHANGED <<cfgVars, store, store0, calls, batchVars, localVars, outcomes>>

\* GuardRejects one line too lenient, and rejecting at the minimum itself.
GuardRejectsOneShort(kept, minimum) == kept < minimum - 1
GuardRejectsAtMinimum(kept, minimum) == kept <= minimum

\* Line 108: the safety check rejects.
GuardRejects(kept, minimum) == kept < minimum

\* Lines 106-118.
Guard ==
    /\ pc = "loop" /\ step = "guard"
    /\ IF GuardRejects(data_lines_kept, min_data_lines)
       THEN StopAt("guard")
       ELSE GoOn("gzip")
    /\ UNCHANGED <<cfgVars, store, store0, calls, batchVars, localVars, outcomes>>

\* Lines 120-122, _gzip_content.
Gzip ==
    /\ pc = "loop" /\ step = "gzip"
    /\ LET g == GzipContent(filtered_content)
       IN  IF g.ok
           THEN /\ compressed_content' = g.body
                /\ GoOn("upload")
           ELSE /\ StopAt("gzip")
                /\ UNCHANGED compressed_content
    /\ UNCHANGED <<cfgVars, store, store0, calls, batchVars, file_content, flt,
                   filtered_content, data_lines_kept, reread, outcomes>>

\* UploadParams with the key of the first listed file.
UploadParamsFirstKey(bucket, key, content) == Call("put", bucket, files[1], content)

\* UploadParams with the key of the last listed file.
UploadParamsLastKey(bucket, key, content) == Call("put", bucket, files[Len(files)], content)

\* Lines 474-480: upload_params.
UploadParams(bucket, key, content) == Call("put", bucket, key, content)

\* Lines 464-485 of _upload_file: the gzip validation of the payload, then
\* put_object on the same bucket and key, which may raise ClientError.
Upload ==
    /\ pc = "loop" /\ step = "upload"
    /\ IF ~GzipDecompress(compressed_content).ok
       THEN /\ StopAt("upload_check")
            /\ UNCHANGED <<store, calls>>
       ELSE /\ calls' = Append(calls, UploadParams(bucket_name, file_key, compressed_content))
            /\ \E client_error \in BOOLEAN :
                  IF client_error
                  THEN /\ StopAt("put")
                       /\ UNCHANGED store
                  ELSE /\ store' = [store EXCEPT
                                      ![UploadParams(bucket_name, file_key, compressed_content).key] =
                                          UploadParams(bucket_name, file_key, compressed_content).body]
                       /\ GoOn("verify")
    /\ UNCHANGED <<cfgVars, store0, batchVars, localVars, outcomes>>

\* What the second get_object may return: the body just written, or, from a
\* store that does not read its own writes at once, the body the key held
\* before, or bytes damaged on the way.
RereadBodies(key) == {store[key], store0[key], DamagedBody}

\* Lines 487-509 of _upload_file, then lines 129-136 of process_file.
Verify ==
    /\ pc = "loop" /\ step = "verify"
    /\ calls' = Append(calls, Call("get", bucket_name, file_key, NoBody))
    /\ \/ /\ StopAt("verify")
          /\ UNCHANGED reread
       \/ \E test_content \in RereadBodies(file_key) :
             /\ reread' = test_content
             /\ StopAt(IF VerifyAccepts(test_content) THEN "ok" ELSE "verify")
    /\ UNCHANGED <<cfgVars, store, store0, batchVars, file_content, flt,
                   filtered_content, data_lines_kept, compressed_content, outcomes>>

\* Lines 136-140: what process_file hands its caller when it stopped at stage.
\* Every exception is caught by its except clause and becomes return False.
ProcessFileResult(stage) == [ret |-> stage = "ok", raised |-> FALSE]

\* OutcomeLabel of a loop that does not look at what process_file returned.
OutcomeLabelIgnoresReturn(r) == IF r.raised THEN "FAILED" ELSE "SUCCESS"

\* Lines 203-213: the entry of results for one object.
OutcomeLabel(r) ==
    IF r.raised THEN "FAILED"
    ELSE IF r.ret THEN "SUCCESS"
    ELSE "SKIPPED"

\* LoopHasNext of a loop that ends at the first file not replaced.
LoopHasNextWhileReplaced(i, fs) == i <= Len(fs) /\ ended_at = "ok"

\* Line 191: the for loop has another file.
LoopHasNext(i, fs) == i <= Len(fs)

\* NextFile of a loop that tries a file again when process_file returned False.
NextFileRetryFailed(i, r) == IF r.ret THEN i + 1 ELSE i

\* Line 191: the for loop goes on to the next file whatever process_file
\* returned, r.
NextFile(i, r) == i + 1

\* Lines 195-213: process_file has returned; the tally, and the next file.
Return ==
    /\ pc = "loop" /\ step = "return"
    /\ LET r == ProcessFileResult(ended_at)
           label == OutcomeLabel(r)
       IN  /\ successful' = IF label = "SUCCESS" THEN successful + 1 ELSE successful
           /\ skipped' = IF label = "SKIPPED" THEN skipped + 1 ELSE skipped
           /\ failed' = IF label = "FAILED" THEN failed + 1 ELSE failed
           /\ results' = Append(results, <<file_key, label>>)
           /\ outcomes' = Append(outcomes,
                 [key |-> file_key, stage |-> ended_at, ret |-> r.ret,
                  label |-> label, kept |-> data_lines_kept,
                  retained |-> filtered_content,
                  payload |-> compressed_content, reread |-> reread])
    /\ idx' = NextFile(idx, ProcessFileResult(ended_at))
    /\ step' = IF LoopHasNext(NextFile(idx, ProcessFileResult(ended_at)), files)
               THEN "download" ELSE "idle"
    /\ ended_at' = "none"
    /\ file_content' = EmptyStr
    /\ flt' = FilterStart
    /\ filtered_content' = EmptyStr
    /\ data_lines_kept' = 0
    /\ compressed_content' = NoBody
    /\ reread' = NoBody
    /\ UNCHANGED <<cfgVars, store, store0, calls, pc, ending, bucket_name, files>>

\* Lines 215-228: the final summary.
FinalSummary ==
    /\ pc = "loop" /\ step = "idle"
    /\ pc' = "done"
    /\ ending' = "complete"
    /\ UNCHANGED <<cfgVars, store, store0, calls, bucket_name, files, idx, results,
                   successful, failed, skipped, step, localVars, ended_at, outcomes>>

Next ==
    \/ Enumerate
    \/ Confirm
    \/ Download
    \/ SaveBefore
    \/ Filter
    \/ SaveAfter
    \/ Guard
    \/ Gzip
    \/ Upload
    \/ Verify
    \/ Return
    \/ FinalSummary

Spec == Init /\ [][Next]_vars

\* The run is one sequential thread of blocking calls: it takes its next step.
FairSpec == Spec /\ WF_vars(Next)

\* ------------------------------------------- the filter on its own inputs
LineSamples ==
    {EmptyStr, <<" ", "\t">>, LineUSA, LineCompactUS,
     ShapeQuotedValue(UnitedStates), ShapeBare(UnitedStatesOfAmerica),
     ShapeJson(CA), ShapeQuotedValue(CA), LineCanada, LineJunk, LineUSMinor}

FilterCountries == {US, Canada, LowerUs}

\* process_file about to call _filter_content on a text of up to MaxLines lines.
InitFilter ==
    /\ \E n \in 1..MaxLines : \E ls \in [1..n -> LineSamples] :
          file_content = Join(ls)
    /\ country_to_keep \in FilterCountries
    /\ s3_uri = UriGood
    /\ save_local_files = FALSE
    /\ dry_run = FALSE
    /\ min_data_lines = 1
    /\ store0 = [k \in ObjectKeys |-> TextBody(file_content)]
    /\ store = store0
    /\ pc = "loop"
    /\ ending = "none"
    /\ bucket_name = BucketName
    /\ files = <<KeyC>>
    /\ idx = 1
    /\ results = << >>
    /\ successful = 0
    /\ failed = 0
    /\ skipped = 0
    /\ step = "filter"
    /\ ended_at = "none"
    /\ outcomes = << >>
    /\ calls = <<Call("list", BucketName, KeyFolder, NoBody),
                 Call("get", BucketName, KeyC, NoBody)>>
    /\ flt = FilterStart
    /\ filtered_content = EmptyStr
    /\ data_lines_kept = 0
    /\ compressed_content = NoBody
    /\ reread = NoBody

SpecFilter == InitFilter /\ [][Filter]_vars

\* The text the object held when the run started.
OriginalText == Utf8Decode(store0[KeyC].data).text

\* A second pass of _filter_content, on the text its first pass returned and
\* with the same target; the results of the first pass are kept in outcomes.
Refilter ==
    /\ pc = "loop" /\ step = "guard" /\ outcomes = << >>
    /\ outcomes' = <<[key |-> file_key, stage |-> "filter", ret |-> FALSE,
                      label |-> "none", kept |-> data_lines_kept,
                      retained |-> filtered_content,
                      payload |-> NoBody, reread |-> NoBody]>>
    /\ file_content' = filtered_content
    /\ flt' = FilterStart
    /\ filtered_content' = EmptyStr
    /\ data_lines_kept' = 0
    /\ step' = "filter"
    /\ UNCHANGED <<cfgVars, store, store0, calls, batchVars, compressed_content,
                   reread, ended_at>>

SpecRefilter == InitFilter /\ [][Filter \/ Refilter]_vars

\* ================================================================ claims
\* The put_object calls issued so far for a key.
PutsTo(key) == {n \in 1..Len(calls) : calls[n].op = "put" /\ calls[n].key = key}
GetsOf(key) == {n \in 1..Len(calls) : calls[n].op = "get" /\ calls[n].key = key}
Untouched(key) == PutsTo(key) = {} /\ store[key] = store0[key]

\* The stages at which process_file stops because of an exception.
ErrorStages ==
    {"download", "decode", "save_before", "save_after", "summary", "gzip",
     "upload_check", "put", "verify"}
\* The stages that lie before the safety check, and those after it.
BeforeFilterStages == {"download", "decode", "save_before"}
PastGuardStages == {"gzip", "upload_check", "put", "verify", "ok"}
PastGuardSteps == {"gzip", "upload", "verify"}

Finished == {outcomes[n] : n \in 1..Len(outcomes)}
BatchComplete == pc = "done" /\ ending = "complete"

\* The filter of the object being processed has returned.
FilterReturned ==
    /\ pc = "loop"
    /\ \/ step \in {"save_after", "guard", "gzip", "upload", "verify"}
       \/ step = "return" /\ ended_at \notin BeforeFilterStages

\* C1. No write on reject: an object whose filter kept fewer lines than
\* min_data_lines gets no put_object, and holds at every later moment of the
\* run, its end included, the body it held when the run started.
C1_NoWriteOnReject ==
    /\ \A o \in Finished :
          (o.stage \notin BeforeFilterStages /\ o.kept < min_data_lines)
             => Untouched(o.key)
    /\ (FilterReturned /\ data_lines_kept < min_data_lines) => Untouched(file_key)

\* C1 witness: the run is over and an object that kept one line of the two
\* required was rejected by the safety check.
C1_Witness ==
    /\ BatchComplete
    /\ \E o \in Finished :
          o.stage = "guard" /\ o.kept = 1 /\ min_data_lines = 2

\* C2. Preview: with dry_run the run lists and reports and nothing else: no
\* get_object, no put_object, no step of process_file, no object changed.
C2_DryRunReadOnly ==
    dry_run =>
       /\ \A n \in 1..Len(calls) : calls[n].op = "list"
       /\ store = store0
       /\ step = "idle"
       /\ pc \in {"start", "done"}
       /\ outcomes = << >> /\ results = << >>

\* C2 witness: a preview run has listed two files and ended.
C2_Witness ==
    /\ dry_run /\ pc = "done" /\ ending = "dry_run"
    /\ Len(files) = 2
    /\ Len(calls) = 1

\* C3. Verify after write: an object whose re-read body differs from the
\* payload that was uploaded is not reported as replaced.
C3_MismatchNeverReplaced ==
    \A o \in Finished :
       (o.reread # NoBody /\ o.reread # o.payload)
          => (~o.ret /\ o.label # "SUCCESS")

\* C4. Every object that stopped on an error is tallied as failed, and as
\* nothing else.
C4_ErrorsCountAsFailed ==
    /\ \A o \in Finished : o.stage \in ErrorStages => o.label = "FAILED"
    /\ failed = Cardinality({n \in 1..Len(outcomes) : outcomes[n].stage \in ErrorStages})

\* C5. Failure isolation: once the loop has started the run reaches the final
\* summary, and then every listed file has exactly one outcome, in listing
\* order, each of them read for processing, those after a failure included.
C5_FailureIsolation ==
    /\ (pc = "loop") ~> BatchComplete
    /\ [](BatchComplete =>
            /\ Len(results) = Len(files)
            /\ Len(outcomes) = Len(files)
            /\ \A n \in 1..Len(files) :
                  /\ results[n][1] = files[n]
                  /\ outcomes[n].key = files[n]
                  /\ GetsOf(files[n]) # {})

\* C5 witness: the summary is reached and a file failed before a later file
\* was replaced.
C5_Witness ==
    /\ BatchComplete
    /\ \E n \in 1..Len(outcomes) : \E m \in (n + 1)..Len(outcomes) :
          outcomes[n].stage \in ErrorStages /\ outcomes[m].stage = "ok"

\* The failures of download, decode and compression.
EarlyFailureStages == {"download", "decode", "gzip"}

\* C6. An object that failed at download, decode or compression got no
\* put_object and holds the body it held when the run started.
C6_EarlyFailureNoWrite ==
    /\ \A o \in Finished : o.stage \in EarlyFailureStages => Untouched(o.key)
    /\ (pc = "loop" /\ step = "return" /\ ended_at \in EarlyFailureStages)
          => Untouched(file_key)

\* C6 witness: the run is over, one object failed the compression step and
\* another could not be decoded.
C6_Witness ==
    /\ BatchComplete
    /\ \E o \in Finished : o.stage = "gzip"
    /\ \E o \in Finished : o.stage = "decode"

\* C7. A failure of the verification and a failure before any write give
\* different outcomes to the caller and in the summary.
C7_VerifyFailureDistinct ==
    \A o1, o2 \in Finished :
       (o1.stage = "verify" /\ o2.stage \in {"decode", "gzip"})
          => <<o1.ret, o1.label>> # <<o2.ret, o2.label>>

\* C8. Guard boundary: the step of the safety check goes on to compression
\* exactly when the kept count is at least min_data_lines.
C8_GuardBoundary ==
    [][(pc = "loop" /\ step = "guard")
          => ((step' = "gzip") <=> (data_lines_kept >= min_data_lines))]_vars

\* C8 witness: under a minimum of one, an object that kept no line was
\* rejected and an object that kept exactly one line went past the guard.
C8_Witness ==
    /\ min_data_lines = 1
    /\ \E o \in Finished : o.stage = "guard" /\ o.kept = 0
    /\ \E o \in Finished : o.stage \in PastGuardStages /\ o.kept = 1

RECURSIVE IsSubseq(_, _)
\* a can be had from b by deleting elements.
IsSubseq(a, b) ==
    IF a = << >> THEN TRUE
    ELSE IF b = << >> THEN FALSE
    ELSE IF Head(a) = Head(b) THEN IsSubseq(Tail(a), Tail(b))
    ELSE IsSubseq(a, Tail(b))

BlankCount(lines) == Cardinality({n \in 1..Len(lines) : IsBlankLine(lines[n])})
DataCount(lines) == Cardinality({n \in 1..Len(lines) : ~IsBlankLine(lines[n])})
FilterDone == step = "guard"

\* C9. Stable filter: the lines _filter_content retains are a subsequence of
\* the input lines, hold as many blank lines as the input, and are what the
\* text it returns is joined from.
C9_StableFilter ==
    FilterDone =>
       LET input == Split(file_content)
       IN  /\ IsSubseq(flt.filtered_lines, input)
           /\ BlankCount(flt.filtered_lines) = BlankCount(input)
           /\ filtered_content = Join(flt.filtered_lines)
           /\ flt.filtered_lines # << >> => Split(filtered_content) = flt.filtered_lines

\* C9 witness: a text with a blank line between a kept and a removed line.
C9_Witness ==
    /\ FilterDone
    /\ flt.kept_count >= 1 /\ flt.removed_count >= 1
    /\ BlankCount(Split(file_content)) >= 1
    /\ Len(Split(file_content)) = 3
    /\ IsBlankLine(Split(file_content)[2])

\* C10. Filter accounting: kept + removed = examined = the non-blank input
\* lines, and the kept count returned is the number of non-blank lines of
\* the returned text.
C10_FilterAccounting ==
    FilterDone =>
       /\ flt.kept_count + flt.removed_count = flt.total_data_lines
       /\ flt.total_data_lines = DataCount(Split(file_content))
       /\ data_lines_kept = flt.kept_count
       /\ data_lines_kept = DataCount(Split(filtered_content))

\* C10 witness: two lines kept, one whitespace-only line first.
C10_Witness ==
    /\ FilterDone
    /\ flt.kept_count = 2 /\ flt.removed_count = 0
    /\ Split(file_content)[1] = <<" ", "\t">>

\* The second pass of the filter has returned.
RefilterDone == FilterDone /\ outcomes # << >>

\* C11. Idempotence: _filter_content applied to the text a previous pass
\* with the same target returned gives that text back, with the same kept
\* count, and removes no line.
C11_RefilterIdempotent ==
    RefilterDone =>
       /\ filtered_content = outcomes[1].retained
       /\ data_lines_kept = outcomes[1].kept
       /\ flt.removed_count = 0

\* C11 witness: the first pass removed a line and kept another, and the
\* second pass has returned.
C11_Witness ==
    /\ RefilterDone
    /\ outcomes[1].kept >= 1
    /\ Len(Split(OriginalText)) > Len(Split(file_content))

\* The characters that end a value written without quotes.
ValueEnd == {",", ";", "}", "\t"}

\* The line holds the field bound to the value v and to nothing longer: in a
\* quoted shape, or in the bare shape with the value ending where v ends.
BoundTo(line, v) ==
    \/ Contains(line, ShapeJson(v))
    \/ Contains(line, ShapeCompact(v))
    \/ Contains(line, ShapeQuotedValue(v))
    \/ \E i \in 0..(Len(line) - Len(ShapeBare(v))) :
          /\ SubSeq(line, i + 1, i + Len(ShapeBare(v))) = ShapeBare(v)
          /\ \/ i + Len(ShapeBare(v)) = Len(line)
             \/ line[i + Len(ShapeBare(v)) + 1] \in ValueEnd

\* The lines the filter retained, and the lines of its input.
RetainedLines == {flt.filtered_lines[n] : n \in 1..Len(flt.filtered_lines)}
InputLines == {Split(file_content)[n] : n \in 1..Len(Split(file_content))}

\* C12. Exact matching: for a target other than "US" every non-blank line
\* retained holds the field bound to exactly the target, and for the target
\* Canada the line ClientGeoCountry: "Canada" is retained and the line
\* ClientGeoCountry: "CA" is removed.
C12_ExactMatchNonUS ==
    (FilterDone /\ country_to_keep # US) =>
       /\ \A line \in RetainedLines :
             ~IsBlankLine(line) => BoundTo(line, country_to_keep)
       /\ country_to_keep = Canada =>
             /\ LineCanada \in InputLines => LineCanada \in RetainedLines
             /\ ShapeQuotedValue(CA) \notin RetainedLines

\* C13. Synonyms of US: for the target "US" a non-blank line is retained
\* exactly when it holds the field bound to US, USA, United States or
\* United States of America; a line bound to another country is removed.
C13_SynonymMatchUS ==
    (FilterDone /\ country_to_keep = US) =>
       \A line \in InputLines :
          ~IsBlankLine(line) =>
             (line \in RetainedLines <=>
                \E v \in {US, USA, UnitedStates, UnitedStatesOfAmerica} : BoundTo(line, v))

\* The outcomes of the objects whose text _gzip_content was called on.
Compressed == {o \in Finished : o.stage \in PastGuardStages}

\* C14. Compression round trip: _gzip_content succeeds on every text, the
\* empty text included; its result decompresses and decodes to the text it
\* was given; the same text gives the same bytes.
C14_CompressionRoundTrip ==
    /\ \A o \in Compressed :
          /\ o.stage # "gzip"
          /\ GzipDecompress(o.payload).ok
          /\ Utf8Decode(GzipDecompress(o.payload).bytes) = [ok |-> TRUE, text |-> o.retained]
    /\ \A o1, o2 \in Compressed :
          (o1.retained = o2.retained /\ o1.stage # "gzip" /\ o2.stage # "gzip")
             => o1.payload = o2.payload

\* The container of a locator: what stands between s3:// and the next '/'.
ContainerOf(uri) ==
    LET rest == SubSeq(uri, Len(S3Scheme) + 1, Len(uri))
        slashes == PositionsOf(rest, Slash)
    IN  IF slashes = << >> THEN rest ELSE SubSeq(rest, 1, slashes[1] - 1)

\* A locator without the scheme or with an empty container.
Malformed(uri) == ~StartsWith(uri, S3Scheme) \/ ContainerOf(uri) = EmptyStr

\* C15. Locator parsing: a well-formed locator is parsed into its container
\* and path and the listing is asked for them; for a malformed locator, the
\* scheme missing or the container empty, parsing fails: the run ends as
\* failed with no listing asked and no object read or written.
C15_LocatorParsing ==
    pc # "start" =>
       IF Malformed(s3_uri)
       THEN ending = "batch_failed" /\ calls = << >> /\ store = store0
       ELSE /\ bucket_name = ContainerOf(s3_uri)
            /\ calls # << >>
            /\ calls[1].op = "list" /\ calls[1].bucket = ContainerOf(s3_uri)
            /\ S3Scheme \o calls[1].bucket \o <<Slash>> \o calls[1].key = s3_uri

\* The stages at which process_file stops when a local file cannot be written.
LocalFileStages == {"save_before", "save_after", "summary"}

\* C16. Local analysis files are best effort: no object's run ends because
\* a before, after or summary file could not be written.
C16_LocalFilesBestEffort ==
    /\ \A o \in Finished : o.stage \notin LocalFileStages
    /\ (pc = "loop" /\ step = "return") => ended_at \notin LocalFileStages

\* The order of the steps of one object's run: each step and the steps that
\* may come right after it.
StepOrder ==
    {<<"download", "save_before">>, <<"download", "filter">>, <<"download", "return">>,
     <<"save_before", "filter">>, <<"save_before", "return">>,
     <<"filter", "save_after">>, <<"filter", "guard">>,
     <<"save_after", "guard">>, <<"save_after", "return">>,
     <<"guard", "gzip">>, <<"guard", "return">>,
     <<"gzip", "upload">>, <<"gzip", "return">>,
     <<"upload", "verify">>, <<"upload", "return">>,
     <<"verify", "return">>,
     <<"return", "download">>, <<"return", "idle">>}

\* The steps up to and including the safety check.
UpToGuardSteps == {"download", "save_before", "filter", "save_after", "guard"}

\* C17. Protocol ordering: the steps of an object's run follow one another
\* only in the order fetch, filter, guard, compress, upload, verify; up to
\* and at the guard nothing is compressed and nothing written for the object;
\* and an object is reported replaced only after its put_object was followed
\* by a get_object of the same key whose body decompressed and decoded.
C17_ProtocolOrdering ==
    /\ [][(pc = "loop" /\ step' # step) => <<step, step'>> \in StepOrder]_vars
    /\ []((pc = "loop" /\ step \in UpToGuardSteps)
             => (PutsTo(file_key) = {} /\ compressed_content = NoBody))
    /\ [](\A o \in Finished :
             o.ret =>
                /\ \E n \in PutsTo(o.key) : \E m \in GetsOf(o.key) : n < m
                /\ o.reread.fmt = "gzip" /\ Utf8Valid(o.reread.data))

\* C17 witness: with local analysis on, an object went through every step
\* and was reported replaced, and the run is over.
C17_Witness ==
    /\ BatchComplete /\ save_local_files
    /\ \E o \in Finished : o.ret /\ o.kept >= 1

\* The get_object and put_object calls issued so far, in order.
ObjectCalls == SelectSeq(calls, LAMBDA c : c.op \in {"get", "put"})

\* The keys the listing returned for the prefix asked, in its order, without
\* those that end with the path separator.
EnumeratedFiles ==
    SelectSeq(AllKeys,
              LAMBDA k : /\ Len(calls[1].key) <= Len(k)
                         /\ SubSeq(k, 1, Len(calls[1].key)) = calls[1].key
                         /\ k[Len(k)] # Slash)

\* The place of a key among the files of the run.
FileIndex(key) == CHOOSE n \in 1..Len(files) : files[n] = key

\* C18. Sequential, exactly once: the objects processed are the enumerated
\* keys that do not end with '/', each once and in enumeration order; while
\* the n-th is processed the n-1 before it have their outcome and no later
\* one has been touched, and the calls never go back to an earlier object.
C18_SequentialExactlyOnce ==
    /\ pc = "loop" =>
          /\ Len(outcomes) = idx - 1
          /\ step # "idle" => idx <= Len(files)
          /\ \A n \in 1..Len(ObjectCalls) :
                /\ \E i \in 1..Len(files) : files[i] = ObjectCalls[n].key
                /\ FileIndex(ObjectCalls[n].key) <= idx
                /\ \A m \in 1..n :
                      FileIndex(ObjectCalls[m].key) <= FileIndex(ObjectCalls[n].key)
    /\ pc \in {"loop", "done"} /\ outcomes # << >> =>
          \A n \in 1..Len(outcomes) : outcomes[n].key = EnumeratedFiles[n]
    /\ BatchComplete =>
          /\ [n \in 1..Len(outcomes) |-> outcomes[n].key] = EnumeratedFiles
          /\ \A k \in ObjectKeys :
                Cardinality({n \in 1..Len(outcomes) : outcomes[n].key = k}) <= 1

\* C18 witness: the prefix holds a folder placeholder and two files; the run
\* is over and the two files were processed, the second after the first.
C18_Witness ==
    /\ BatchComplete
    /\ KeyFolder \in {AllKeys[n] : n \in 1..Len(AllKeys)}
    /\ StartsWith(KeyFolder, calls[1].key)
    /\ Len(outcomes) = 2
    /\ outcomes[1].key = KeyA /\ outcomes[2].key = KeyC

\* The get_object calls for a key before any put_object to it, the reads for
\* processing, and those after one, the re-reads of the verification.
ReadsOf(key) == {n \in GetsOf(key) : \A m \in PutsTo(key) : n < m}
RereadsOf(key) == {n \in GetsOf(key) : \E m \in PutsTo(key) : m < n}

\* C19. No retries: in one run every object is read for processing at most
\* once, written at most once and re-read at most once; an object whose read,
\* write or verification failed has had exactly the calls up to the failed
\* one and gets no further call.
C19_NoRetries ==
    /\ \A k \in ObjectKeys :
          /\ Cardinality(ReadsOf(k)) <= 1
          /\ Cardinality(PutsTo(k)) <= 1
          /\ Cardinality(RereadsOf(k)) <= 1
    /\ \A o \in Finished :
          /\ o.stage = "download" =>
                Cardinality(GetsOf(o.key)) = 1 /\ PutsTo(o.key) = {}
          /\ o.stage = "put" =>
                Cardinality(GetsOf(o.key)) = 1 /\ Cardinality(PutsTo(o.key)) = 1
          /\ o.stage = "verify" =>
                Cardinality(GetsOf(o.key)) = 2 /\ Cardinality(PutsTo(o.key)) = 1
    /\ Len(outcomes) <= Len(files)

\* C19 witness: the run is over; the write of one object failed and the
\* verification of the other.
C19_Witness ==
    /\ BatchComplete
    /\ \E o \in Finished : o.stage = "put"
    /\ \E o \in Finished : o.stage = "verify"

\* A text of nothing but whitespace: all its lines are blank.
AllBlank(text) == \A i \in 1..Len(text) : text[i] \in {" ", "\t", "\r", NL}

\* The filter has returned for an object whose text is all blank.
AllBlankFiltered ==
    /\ pc = "loop"
    /\ \/ step \in {"save_after", "guard", "gzip", "upload", "verify"}
       \/ step = "return" /\ ended_at \notin BeforeFilterStages
    /\ AllBlank(file_content)

\* The safety check has decided for the object being processed.
GuardDecided ==
    \/ step \in PastGuardSteps
    \/ step = "return" /\ ended_at \in PastGuardStages \cup {"guard"}

\* C20 as stated. All-blank input: the filter reports 0 examined and 0 kept
\* lines, the safety check compares the kept count with the minimum, and
\* such an input passes every positive minimum.
C20_AllBlankPasses ==
    AllBlankFiltered =>
       /\ flt.total_data_lines = 0 /\ flt.kept_count = 0 /\ data_lines_kept = 0
       /\ (GuardDecided /\ min_data_lines >= 1) => ~(step = "return" /\ ended_at = "guard")

\* C20 as amended. All-blank input: the filter reports 0 examined and 0 kept
\* lines, the safety check compares the kept count with the minimum, and
\* such an input is rejected under every positive minimum and passes the
\* check only under the minimum 0.
C20_AllBlankRejected ==
    AllBlankFiltered =>
       /\ flt.total_data_lines = 0 /\ flt.kept_count = 0 /\ data_lines_kept = 0
       /\ GuardDecided =>
             ((step = "return" /\ ended_at = "guard") <=> min_data_lines >= 1)

\* C20 witness: an object of one whitespace line and an empty line was
\* rejected by the safety check under a minimum of two.
C20_Witness ==
    /\ AllBlankFiltered /\ file_content # EmptyStr
    /\ step = "return" /\ ended_at = "guard"
    /\ min_data_lines = 2
    /\ flt.filtered_lines = Split(file_content)

\* The stages at which a run stops because a storage call failed or returned
\* a body that cannot be read.
StorageFailureStages == {"download", "decode", "put", "verify"}

\* C21. Zero threshold end to end: with min_data_lines = 0 an object whose
\* filter kept no line, the retained text empty or not, passes the safety
\* check, is compressed, uploaded and verified and is reported replaced,
\* when no storage call and no local file fails.
C21_ZeroThresholdReplaces ==
    \A o \in Finished :
       (/\ min_data_lines = 0 /\ o.kept = 0
        /\ o.stage \notin StorageFailureStages \cup LocalFileStages)
          => (o.stage = "ok" /\ o.ret /\ o.label = "SUCCESS")

\* C22. Skipped means untouched: an object the summary records as skipped
\* got no put_object during the run and holds the body it held before it.
C22_SkippedUntouched ==
    \A o \in Finished : o.label = "SKIPPED" => Untouched(o.key)

\* C23. Replaced objects stay readable: after an object was reported replaced
\* and while it holds the payload uploaded, _download_file on its key, with
\* or without the .gz suffix, succeeds and returns the retained text.
C23_ReplacedReadable ==
    \A o \in Finished :
       (o.ret /\ store[o.key] = o.payload)
          => DownloadDecode(o.key, store[o.key]) = [ok |-> TRUE, text |-> o.retained]

\* The keys the run has listed.
ListedFiles == {files[n] : n \in 1..Len(files)}

\* C24. Write frame: a put_object is issued only by the upload step of the
\* object being processed, to the container parsed from the locator and to
\* that object's key; an object's body changes only in that step of its own
\* run; every put_object so far went to a listed key under the prefix, and
\* an object with another key holds the body it held when the run started.
C24_WriteFrame ==
    /\ [][/\ calls' # calls /\ calls'[Len(calls')].op = "put" =>
               /\ pc = "loop" /\ step = "upload"
               /\ calls'[Len(calls')].bucket = ContainerOf(s3_uri)
               /\ calls'[Len(calls')].key = files[idx]
           /\ \A k \in ObjectKeys :
                 store'[k] # store[k] =>
                    /\ pc = "loop" /\ step = "upload" /\ k = files[idx]
                    /\ calls' # calls /\ calls'[Len(calls')].op = "put"
                    /\ calls'[Len(calls')].key = k]_vars
    /\ [](\A n \in 1..Len(calls) :
             calls[n].op = "put" =>
                /\ calls[n].bucket = ContainerOf(s3_uri)
                /\ calls[n].key \in ListedFiles
                /\ StartsWith(calls[n].key, calls[1].key)
                /\ calls[n].key[Len(calls[n].key)] # Slash)
    /\ [](\A k \in ObjectKeys : k \notin ListedFiles => store[k] = store0[k])

\* C24 witness: the run is over, both listed objects were written, and
\* neither the folder placeholder nor the object outside the prefix was.
C24_Witness ==
    /\ BatchComplete
    /\ store[KeyA] # store0[KeyA] /\ store[KeyC] # store0[KeyC]
    /\ PutsTo(KeyFolder) = {} /\ PutsTo(KeyQ) = {}
    /\ store[KeyQ] = store0[KeyQ]

\* The objects process_file returned True for.
ReturnedTrue == {n \in 1..Len(outcomes) : outcomes[n].ret}

\* C25. Summary accounting: in the loop and after it the three counters add
\* up to the length of results and to the number of finished objects; when
\* the batch completes that is the number of enumerated objects; successful
\* counts the objects process_file returned True for, and each entry of
\* results names the object it stands for.
C25_SummaryAccounting ==
    /\ pc \in {"loop", "done"} =>
          /\ successful + skipped + failed = Len(results)
          /\ Len(results) = Len(outcomes)
          /\ successful = Cardinality(ReturnedTrue)
          /\ \A n \in 1..Len(results) :
                /\ results[n][1] = outcomes[n].key
                /\ (results[n][2] = "SUCCESS") <=> outcomes[n].ret
    /\ pc = "loop" => Len(outcomes) = (IF step = "idle" THEN Len(files) ELSE idx - 1)
    /\ BatchComplete => successful + skipped + failed = Len(EnumeratedFiles)

\* C25 witness: the batch completed with one object replaced and one not.
C25_Witness ==
    /\ BatchComplete
    /\ successful = 1 /\ skipped + failed = 1
    /\ Len(EnumeratedFiles) = 2

=============================================================================
